---- MODULE Spec2Model ----
(***************************************************************************)
(* Model of pakr-iec (src/src/lib.rs): the two formatters decimal(val) and *)
(* iec(val) over u128.                                                     *)
(*                                                                         *)
(* TLC's integers are 32 bits wide, so a u128 is carried as NLimbs limbs   *)
(* of radix W, least significant limb first (8 * 16 bits = 128 bits).  The *)
(* u128 operations the code uses (>=, %, /, Display) are computed on that  *)
(* representation by long division.  t never exceeds 1023 in the code, so  *)
(* it is carried as a plain integer.                                       *)
(***************************************************************************)
EXTENDS Integers, Sequences, FiniteSets, TLC

VARIABLES fn, val, s, v, t, pc, out, iters

vars == <<fn, val, s, v, t, pc, out, iters>>

----------------------------------------------------------------------------
(* Natural numbers as little-endian limb sequences of any length.          *)

W == 65536
NLimbs == 8

Limb(a, i) == IF i <= Len(a) THEN a[i] ELSE 0

Max2(x, y) == IF x >= y THEN x ELSE y

RECURSIVE BigCmpFrom(_, _, _)
BigCmpFrom(a, b, i) ==
    IF i = 0 THEN 0
    ELSE IF Limb(a, i) < Limb(b, i) THEN -1
    ELSE IF Limb(a, i) > Limb(b, i) THEN 1
    ELSE BigCmpFrom(a, b, i - 1)

BigCmp(a, b) == BigCmpFrom(a, b, Max2(Len(a), Len(b)))

BigLess(a, b) == BigCmp(a, b) = -1

BigLeq(a, b) == BigCmp(a, b) <= 0

BigEq(a, b) == BigCmp(a, b) = 0

\* a * m + c, for 0 <= m, c <= 1024
RECURSIVE MulAddFrom(_, _, _, _)
MulAddFrom(a, m, i, carry) ==
    IF i > Len(a)
    THEN IF carry = 0 THEN <<>> ELSE <<carry>>
    ELSE LET x == a[i] * m + carry
         IN  <<x % W>> \o MulAddFrom(a, m, i + 1, x \div W)

BigMulAdd(a, m, c) == MulAddFrom(a, m, 1, c)

RECURSIVE BigPow(_, _)
BigPow(B, k) == IF k = 0 THEN <<1>> ELSE BigMulAdd(BigPow(B, k - 1), B, 0)

\* x * B^n + (B^n - 1) * [f = B - 1]: n further base-B digits, all equal to f
RECURSIVE Horner(_, _, _, _)
Horner(x, B, n, f) ==
    IF n = 0 THEN x ELSE Horner(BigMulAdd(x, B, f), B, n - 1, f)

----------------------------------------------------------------------------
(* u128 and its operations.                                                *)

FitsU128(a) == \A i \in 1..Len(a) : i > NLimbs => a[i] = 0

ToU128(a) == [i \in 1..NLimbs |-> Limb(a, i)]

U128From(n) == [i \in 1..NLimbs |-> IF i = 1 THEN n % W
                                     ELSE IF i = 2 THEN n \div W ELSE 0]

U128Max == [i \in 1..NLimbs |-> W - 1]

\* vv >= n
U128Ge(vv, n) == BigCmp(vv, U128From(n)) >= 0

\* the limbs of vv above limb i, modulo d
RECURSIVE RemAbove(_, _, _)
RemAbove(vv, d, i) ==
    IF i >= Len(vv) THEN 0 ELSE (RemAbove(vv, d, i + 1) * W + vv[i + 1]) % d

\* vv % d
U128Rem(vv, d) == RemAbove(vv, d, 0)

\* vv / d
U128Div(vv, d) == [i \in 1..Len(vv) |-> (RemAbove(vv, d, i) * W + vv[i]) \div d]

Digit == <<"0", "1", "2", "3", "4", "5", "6", "7", "8", "9">>

\* format!("{}", vv) of a u128
RECURSIVE FmtU128(_)
FmtU128(vv) ==
    IF U128Ge(vv, 10)
    THEN FmtU128(U128Div(vv, 10)) \o Digit[U128Rem(vv, 10) + 1]
    ELSE Digit[vv[1] + 1]

----------------------------------------------------------------------------
(* decimal                                                                 *)

MULTS_decimal == <<"", "k", "M", "G", "T", "P", "E", "Z", "Y">>

\* the table bound taken inclusively
decimal_cond_inclusive(vv, ss) == U128Ge(vv, 1000) /\ ss <= Len(MULTS_decimal)

decimal_cond(vv, ss) == U128Ge(vv, 1000) /\ ss < Len(MULTS_decimal)

\* the digit taken after v was divided
decimal_t_after_divide(vv) == U128Rem(U128Div(vv, 1000), 1000) \div 100

\* the digit rounded to nearest
decimal_t_rounded(vv) == (U128Rem(vv, 1000) + 50) \div 100

decimal_t(vv) == U128Rem(vv, 1000) \div 100

\* % in place of /
decimal_v_rem(vv) == U128From(U128Rem(vv, 1000))

decimal_v(vv) == U128Div(vv, 1000)

\* MULTS[s] is in bounds
decimal_index_ok(ss) == ss + 1 \in DOMAIN MULTS_decimal

decimal_format(vv, tt, ss) ==
    FmtU128(vv) \o "." \o FmtU128(U128From(tt)) \o MULTS_decimal[ss + 1]

decimal_loop ==
    /\ fn = "decimal"
    /\ pc = "loop"
    /\ decimal_cond(v, s)
    /\ s' = s + 1
    /\ t' = decimal_t(v)
    /\ v' = decimal_v(v)
    /\ iters' = iters + 1
    /\ UNCHANGED <<fn, val, pc, out>>

decimal_return ==
    /\ fn = "decimal"
    /\ pc = "loop"
    /\ ~decimal_cond(v, s)
    /\ decimal_index_ok(s)
    /\ out' = decimal_format(v, t, s)
    /\ pc' = "done"
    /\ UNCHANGED <<fn, val, s, v, t, iters>>

decimal_panic ==
    /\ fn = "decimal"
    /\ pc = "loop"
    /\ ~decimal_cond(v, s)
    /\ ~decimal_index_ok(s)
    /\ pc' = "panic"
    /\ UNCHANGED <<fn, val, s, v, t, out, iters>>

\* decimal(val) run to its end: the loop from (v, t, s), then the indexing
RECURSIVE decimal_exec(_, _, _)
decimal_exec(vv, tt, ss) ==
    IF decimal_cond(vv, ss)
    THEN decimal_exec(decimal_v(vv), decimal_t(vv), ss + 1)
    ELSE [v |-> vv, t |-> tt, s |-> ss, ok |-> decimal_index_ok(ss)]

----------------------------------------------------------------------------
(* iec                                                                     *)

\* the table ending at zebi
MULTS_iec_to_zebi == <<"", "ki", "Mi", "Gi", "Ti", "Pi", "Ei", "Zi">>

MULTS_iec == <<"", "ki", "Mi", "Gi", "Ti", "Pi", "Ei", "Zi", "Yi">>

\* > in place of >=
iec_cond_strict(vv, ss) == U128Ge(vv, 1025) /\ ss < Len(MULTS_iec)

iec_cond(vv, ss) == U128Ge(vv, 1024) /\ ss < Len(MULTS_iec)

\* the remainder scaled to a digit inside the loop
iec_t_scaled_in_loop(vv) == (10 * U128Rem(vv, 1024)) \div 1024

iec_t(vv) == U128Rem(vv, 1024)

iec_v(vv) == U128Div(vv, 1024)

\* the digit rounded to nearest
iec_digit_rounded(tt) == (10 * tt + 512) \div 1024

\* the digit scaled by 1000
iec_digit_by_1000(tt) == (10 * tt) \div 1000

\* t = 10 * t / 1024 after the loop
iec_digit(tt) == (10 * tt) \div 1024

iec_index_ok(ss) == ss + 1 \in DOMAIN MULTS_iec

iec_format(vv, tt, ss) ==
    FmtU128(vv) \o "." \o FmtU128(U128From(tt)) \o MULTS_iec[ss + 1]

iec_loop ==
    /\ fn = "iec"
    /\ pc = "loop"
    /\ iec_cond(v, s)
    /\ s' = s + 1
    /\ t' = iec_t(v)
    /\ v' = iec_v(v)
    /\ iters' = iters + 1
    /\ UNCHANGED <<fn, val, pc, out>>

iec_return ==
    /\ fn = "iec"
    /\ pc = "loop"
    /\ ~iec_cond(v, s)
    /\ iec_index_ok(s)
    /\ t' = iec_digit(t)
    /\ out' = iec_format(v, t', s)
    /\ pc' = "done"
    /\ UNCHANGED <<fn, val, s, v, iters>>

iec_panic ==
    /\ fn = "iec"
    /\ pc = "loop"
    /\ ~iec_cond(v, s)
    /\ ~iec_index_ok(s)
    /\ t' = iec_digit(t)
    /\ pc' = "panic"
    /\ UNCHANGED <<fn, val, s, v, out, iters>>

\* iec(val) run to its end: the loop from (v, t, s), then the indexing
RECURSIVE iec_exec(_, _, _)
iec_exec(vv, tt, ss) ==
    IF iec_cond(vv, ss)
    THEN iec_exec(iec_v(vv), iec_t(vv), ss + 1)
    ELSE [v |-> vv, t |-> iec_digit(tt), s |-> ss, ok |-> iec_index_ok(ss)]

----------------------------------------------------------------------------
(* The inputs: q * B^k + r * B^(k-1) + low, with q and r near the places   *)
(* where the output changes and low all zeros or all B-1, inside u128.     *)

MaxExp == 12
Spread == 1

Near(c, B) == {x \in (c - Spread)..(c + Spread) : 0 <= x /\ x < B}

QVals(B) == (Near(1, B) \ {0}) \cup {10} \cup Near(B - 1, B)

\* the least remainder whose printed digit is d
decimal_break(d) == 100 * d

iec_break(d) == (1024 * d + 9) \div 10

RVals(B) ==
    UNION {Near(IF B = 1000 THEN decimal_break(d) ELSE iec_break(d), B) :
               d \in {0, 1, 5, 9}}
    \cup Near(B - 1, B)

ZeroStepVals(B) ==
    Near(0, B) \cup Near(10, B) \cup Near(100, B) \cup Near(B - 1, B)
    \cup {n \in {1000} : n < B}

Family(B) ==
    LET composed ==
            {Horner(BigMulAdd(U128From(q), B, r), B, k - 1, f) :
                 <<k, q, r, f>> \in (1..MaxExp) \X QVals(B) \X RVals(B)
                                    \X {0, B - 1}}
    IN  {U128From(n) : n \in ZeroStepVals(B)}
        \cup {ToU128(a) : a \in {b \in composed : FitsU128(b)}}
        \cup {U128Max}

InputsDecimal == Family(1000)

InputsIec == Family(1024)

Init ==
    /\ fn \in {"decimal", "iec"}
    /\ val \in (IF fn = "decimal" THEN InputsDecimal ELSE InputsIec)
    /\ s = 0
    /\ v = val
    /\ t = 0
    /\ pc = "loop"
    /\ out = ""
    /\ iters = 0

Next ==
    \/ decimal_loop
    \/ decimal_return
    \/ decimal_panic
    \/ iec_loop
    \/ iec_return
    \/ iec_panic

Spec == Init /\ [][Next]_vars

TypeOK ==
    /\ fn \in {"decimal", "iec"}
    /\ pc \in {"loop", "done", "panic"}
    /\ s \in 0..9
    /\ t \in 0..1023
    /\ iters \in 0..9

----------------------------------------------------------------------------
(* Reference quantities of the properties, computed apart from the code:   *)
(* powers by multiplication, the scale step by comparison with powers.     *)

PowDecimal == [k \in 0..13 |-> BigPow(1000, k)]

PowIec == [k \in 0..13 |-> BigPow(1024, k)]

Base == IF fn = "decimal" THEN 1000 ELSE 1024

Pow(k) == IF fn = "decimal" THEN PowDecimal[k] ELSE PowIec[k]

S_decimal == <<"", "k", "M", "G", "T", "P", "E", "Z", "Y">>

S_iec == <<"", "ki", "Mi", "Gi", "Ti", "Pi", "Ei", "Zi", "Yi">>

Returned == pc = "done"

Exited == pc \in {"done", "panic"}

\* val < base^9
BelowTable == BigLess(val, Pow(9))

\* the k with base^k <= a < base^(k+1), 0 when a < base
RefStep(a) ==
    IF BigLess(a, Pow(1)) THEN 0
    ELSE CHOOSE k \in 1..12 : BigLeq(Pow(k), a) /\ BigLess(a, Pow(k + 1))

\* a div B^k
RECURSIVE DivPow(_, _, _)
DivPow(a, B, k) == IF k <= 0 THEN a ELSE DivPow(U128Div(a, B), B, k - 1)

RefDecimal(a) ==
    LET k == RefStep(a)
        q == DivPow(a, 1000, k)
        d == U128Rem(DivPow(a, 1000, k - 1), 1000) \div 100
    IN  IF k = 0 THEN FmtU128(a) \o ".0"
        ELSE FmtU128(q) \o "." \o Digit[d + 1] \o S_decimal[k + 1]

\* the remainder of the final division step of iec
RefIecRem(a) == U128Rem(DivPow(a, 1024, RefStep(a) - 1), 1024)

RefIec(a) ==
    LET k == RefStep(a)
        q == DivPow(a, 1024, k)
        d == (10 * RefIecRem(a)) \div 1024
    IN  IF k = 0 THEN FmtU128(a) \o ".0"
        ELSE FmtU128(q) \o "." \o Digit[d + 1] \o S_iec[k + 1]

\* the assertions of tests::test_decimal and the spec's boundary list
DecimalTests ==
    {<<0, "0.0">>, <<1, "1.0">>, <<10, "10.0">>, <<100, "100.0">>,
     <<999, "999.0">>, <<1000, "1.0k">>, <<1001, "1.0k">>, <<1100, "1.1k">>,
     <<10000, "10.0k">>, <<10000000, "10.0M">>}

\* the assertions of tests::test_iec and tests::test_iec_boundary
IecTests ==
    {<<0, "0.0">>, <<1, "1.0">>, <<10, "10.0">>, <<100, "100.0">>,
     <<1000, "1000.0">>, <<1023, "1023.0">>, <<1024, "1.0ki">>,
     <<1025, "1.0ki">>, <<10240, "10.0ki">>, <<10485760, "10.0Mi">>,
     <<1126, "1.0ki">>, <<1127, "1.1ki">>, <<1154047, "1.0Mi">>,
     <<1154048, "1.1Mi">>, <<2097151, "1.9Mi">>, <<2097152, "2.0Mi">>}

----------------------------------------------------------------------------
(* The properties.                                                         *)

\* C1: decimal and iec have no error states: every call on a u128 completes
\* and returns a formatted string, the suffix lookup MULTS[s] staying inside
\* the 9-entry table also when val >= base^9.
C1_NoErrorStates ==
    Exited => /\ Returned
              /\ s + 1 \in DOMAIN (IF fn = "decimal" THEN MULTS_decimal
                                                     ELSE MULTS_iec)

\* C2: for every val < 1000^9, decimal(val) is "{val}.0" when val < 1000 and
\* otherwise "{q}.{d}{S[k]}" with 1000^k <= val < 1000^(k+1), q = val div 1000^k
\* and d the hundreds digit of the remainder of the final division step.
C2_DecimalReference ==
    (fn = "decimal" /\ Exited /\ BelowTable) =>
        /\ Returned
        /\ out = RefDecimal(val)
        /\ \A e \in DecimalTests : val = U128From(e[1]) => out = e[2]

C2_Witness ==
    /\ fn = "decimal" /\ Returned /\ BelowTable
    /\ s = 8 /\ t = 9 /\ out = "999.9Y"

\* C3: for every val < 1024^9, iec(val) is "{val}.0" when val < 1024 and
\* otherwise "{q}.{d}{S[k]}" with 1024^k <= val < 1024^(k+1), q = val div 1024^k,
\* r the full remainder of the final division step and d = (10 * r) div 1024
\* taken once after the loop; the digit is 0 up to r = 102 and 1 at r = 103.
C3_IecReference ==
    (fn = "iec" /\ Exited /\ BelowTable) =>
        /\ Returned
        /\ out = RefIec(val)
        /\ \A e \in IecTests : val = U128From(e[1]) => out = e[2]
        /\ (s >= 1 /\ RefIecRem(val) <= 102) => t = 0
        /\ (s >= 1 /\ RefIecRem(val) = 103) => t = 1

C3_Witness ==
    /\ fn = "iec" /\ Returned /\ BelowTable
    /\ s = 2 /\ val = U128From(1154048) /\ out = "1.1Mi"

\* C4: for every k in 0..8, decimal(1000^k) is "1.0" followed by the k-th
\* decimal suffix and iec(1024^k) is "1.0" followed by the k-th IEC suffix.
C4_ExactAtPowers ==
    \A k \in 0..8 :
        (Exited /\ BigEq(val, Pow(k))) =>
            /\ Returned
            /\ out = "1.0" \o (IF fn = "decimal" THEN S_decimal[k + 1]
                                                 ELSE S_iec[k + 1])

C4_Witness ==
    /\ fn = "iec" /\ Returned /\ BigEq(val, Pow(8)) /\ out = "1.0Yi"

\* the outcome of every input of the family, by scale step
OutcomesDecimal ==
    LET all == {[val |-> a, r |-> decimal_exec(a, 0, 0)] : a \in InputsDecimal}
    IN  [k \in 0..10 |-> {x \in all : x.r.s = k /\ x.r.ok}]

OutcomesIec ==
    LET all == {[val |-> a, r |-> iec_exec(a, 0, 0)] : a \in InputsIec}
    IN  [k \in 0..10 |-> {x \in all : x.r.s = k /\ x.r.ok}]

Outcomes(k) == IF fn = "decimal" THEN OutcomesDecimal[k] ELSE OutcomesIec[k]

\* C5: for v1 < v2 whose outputs have the same suffix index s, the integer
\* part printed for v1 is at most the integer part printed for v2.
C5_Monotone ==
    Returned =>
        \A x \in Outcomes(s) : BigLess(val, x.val) => BigLeq(v, x.r.v)

C5_Witness ==
    /\ Returned /\ s = 8
    /\ \E x \in Outcomes(s) : BigLess(val, x.val) /\ BigLess(v, x.r.v)

\* C6: the scaling loop runs at most 9 times: each iteration increments s by
\* exactly one and strictly decreases v, and no iteration starts once s has
\* reached the length of the suffix table.
C6_LoopBounded ==
    [][iters' # iters =>
          /\ s < 9
          /\ s' = s + 1
          /\ BigLess(v', v)
          /\ iters' = iters + 1
          /\ iters' <= 9]_vars

C6_Witness == iters = 9 /\ s = 9 /\ Exited

\* C7: iec never displays more than the true quotient: for val < 1024^9,
\* (10*q + d) * 1024^s <= 10 * val.
C7_IecTruncates ==
    (fn = "iec" /\ Returned /\ BelowTable) =>
        BigLeq(Horner(BigMulAdd(v, 10, t), 1024, s, 0), BigMulAdd(val, 10, 0))

C7_Witness ==
    /\ fn = "iec" /\ Returned /\ BelowTable /\ s = 8 /\ t = 9
    /\ BigLess(Horner(BigMulAdd(v, 10, t), 1024, s, 0), BigMulAdd(val, 10, 0))

\* C8: the formatted t is one digit: in decimal t is always in 0..9, in iec
\* t is in 0..9 after the post-loop transform, and is 0 when the loop never
\* ran; the output is the integer part, a point, that one digit, the suffix.
C8_OneFractionalDigit ==
    /\ fn = "decimal" => t \in 0..9
    /\ Exited => t \in 0..9 /\ (iters = 0 => t = 0)
    /\ Returned =>
           \E d \in 0..9 :
               out = FmtU128(v) \o "." \o Digit[d + 1]
                        \o (IF fn = "decimal" THEN S_decimal[s + 1]
                                              ELSE S_iec[s + 1])

C8_Witness == fn = "iec" /\ Returned /\ t = 9 /\ iters > 0

\* C9: decimal prints the exact truncation of val / 1000^s to one place: for
\* val < 1000^9, 10*q + d = (10 * val) div 1000^s.
C9_DecimalExactTruncation ==
    (fn = "decimal" /\ Returned /\ BelowTable) =>
        /\ BigLeq(Horner(BigMulAdd(v, 10, t), 1000, s, 0),
                  BigMulAdd(val, 10, 0))
        /\ BigLess(BigMulAdd(val, 10, 0),
                   Horner(BigMulAdd(v, 10, t + 1), 1000, s, 0))

C9_Witness ==
    /\ fn = "decimal" /\ Returned /\ BelowTable /\ s = 8 /\ t = 9
    /\ BigLess(Horner(BigMulAdd(v, 10, t), 1000, s, 0), BigMulAdd(val, 10, 0))

\* C10: the loop is left only with v < base or s at the end of the table; for
\* val < base^9 the printed integer part is below base, and when s >= 1 it is
\* at least 1 and s is the number of divisions performed.
C10_TerminalState ==
    Exited =>
        /\ ~U128Ge(v, Base) \/ s = 9
        /\ BelowTable =>
               /\ ~U128Ge(v, Base)
               /\ s >= 1 => U128Ge(v, 1) /\ s = iters /\ s = RefStep(val)

C10_Witness ==
    /\ Returned /\ BelowTable /\ s = 8 /\ iters = 8 /\ v = U128From(Base - 1)

====
